---- MODULE Spec2Model ----
(***************************************************************************)
(* Model of iNaturalist_Photo_Scraper.py: the CSV loader                   *)
(* (get_observation_data_from_csv), the downloader                         *)
(* (download_inaturalist_photos_api) and the main block.                   *)
(*                                                                         *)
(* A Python str is modelled as a sequence of one-character strings, so     *)
(* that strip, lower, split, startswith, replace and re.sub are computed   *)
(* character by character.                                                 *)
(***************************************************************************)
EXTENDS Integers, Sequences, FiniteSets, TLC

(***************************************************************************)
(* Bounds of the model.                                                    *)
(***************************************************************************)
\* longest photo list an API response carries
MaxPhotos == 2
\* most data rows of a CSV drawn for the loader alone
MaxDataRows == 2
\* longest scientific_name drawn for the sanitizer alone
MaxNameLen == 2

(***************************************************************************)
(* String helpers (Python str methods).                                    *)
(***************************************************************************)
Whitespace == {" ", "\t", "\n", "\r"}

DigitChars == <<"0", "1", "2", "3", "4", "5", "6", "7", "8", "9">>

\* str.lower() of the ASCII capitals
LowerTable ==
    ("A" :> "a") @@ ("B" :> "b") @@ ("C" :> "c") @@ ("D" :> "d") @@ ("E" :> "e")
    @@ ("F" :> "f") @@ ("G" :> "g") @@ ("H" :> "h") @@ ("I" :> "i") @@ ("J" :> "j")
    @@ ("K" :> "k") @@ ("L" :> "l") @@ ("M" :> "m") @@ ("N" :> "n") @@ ("O" :> "o")
    @@ ("P" :> "p") @@ ("Q" :> "q") @@ ("R" :> "r") @@ ("S" :> "s") @@ ("T" :> "t")
    @@ ("U" :> "u") @@ ("V" :> "v") @@ ("W" :> "w") @@ ("X" :> "x") @@ ("Y" :> "y")
    @@ ("Z" :> "z")

\* str.lower() of one character
LowerChar(c) == IF c \in DOMAIN LowerTable THEN LowerTable[c] ELSE c

\* str.lower()
Lower(s) == [k \in 1..Len(s) |-> LowerChar(s[k])]

\* str.lstrip(chars)
RECURSIVE LStripChars(_, _)
LStripChars(s, chars) ==
    IF s # <<>> /\ Head(s) \in chars THEN LStripChars(Tail(s), chars) ELSE s

\* str.rstrip(chars)
RECURSIVE RStripChars(_, _)
RStripChars(s, chars) ==
    IF s # <<>> /\ s[Len(s)] \in chars
    THEN RStripChars(SubSeq(s, 1, Len(s) - 1), chars)
    ELSE s

\* str.strip(chars)
StripChars(s, chars) == RStripChars(LStripChars(s, chars), chars)

\* str.strip()
Strip(s) == StripChars(s, Whitespace)

\* str.startswith(prefix)
StartsWith(s, prefix) ==
    Len(s) >= Len(prefix) /\ SubSeq(s, 1, Len(prefix)) = prefix

\* str.split(sep)[-1] for a one-character sep: the text after the last sep
RECURSIVE LastSegment(_, _)
LastSegment(s, sep) ==
    IF \E k \in 1..Len(s) : s[k] = sep
    THEN LastSegment(Tail(s), sep)
    ELSE s

\* IsDigit as str.isalnum() over the alphabet of the sample URLs
IsDigit_Alnum(s) ==
    s # <<>> /\ \A k \in 1..Len(s) : s[k] \notin {"/", ":", " "}

\* str.isdigit() over the ASCII alphabet of the model
IsDigit(s) ==
    s # <<>> /\ \A k \in 1..Len(s) : \E d \in 1..10 : DigitChars[d] = s[k]

\* str.replace(old, new) for a non-empty old: left to right, non-overlapping
RECURSIVE Replace(_, _, _)
Replace(s, old, new) ==
    IF Len(s) < Len(old) THEN s
    ELSE IF SubSeq(s, 1, Len(old)) = old
         THEN new \o Replace(SubSeq(s, Len(old) + 1, Len(s)), old, new)
         ELSE <<Head(s)>> \o Replace(Tail(s), old, new)

\* str(n) for a natural number n
RECURSIVE DecStr(_)
DecStr(n) ==
    IF n < 10 THEN <<DigitChars[n + 1]>>
    ELSE DecStr(n \div 10) \o <<DigitChars[(n % 10) + 1]>>

\* list.index(x), 0-based; -1 stands for ValueError
Index0(list, x) ==
    IF \E k \in 1..Len(list) : list[k] = x
    THEN (CHOOSE k \in 1..Len(list) :
              list[k] = x /\ \A j \in 1..(k - 1) : list[j] # x) - 1
    ELSE -1

Max(a, b) == IF a > b THEN a ELSE b

(***************************************************************************)
(* Literals of the program.                                                *)
(***************************************************************************)
S_url == <<"u", "r", "l">>
S_scientific_name ==
    <<"s", "c", "i", "e", "n", "t", "i", "f", "i", "c", "_", "n", "a", "m", "e">>
S_http == <<"h", "t", "t", "p">>
S_square == <<"s", "q", "u", "a", "r", "e">>
S_large == <<"l", "a", "r", "g", "e">>
S_observation_ == <<"o", "b", "s", "e", "r", "v", "a", "t", "i", "o", "n", "_">>
S_jpg == <<".", "j", "p", "g">>
BASE_OUTPUT_DIR ==
    <<"i", "n", "a", "t", "u", "r", "a", "l", "i", "s", "t", "_",
      "p", "h", "o", "t", "o", "s">>
ApiBase ==
    <<"h", "t", "t", "p", "s", ":", "/", "/", "a", "p", "i", ".",
      "i", "n", "a", "t", "u", "r", "a", "l", "i", "s", "t", ".", "o", "r", "g",
      "/", "v", "1", "/", "o", "b", "s", "e", "r", "v", "a", "t", "i", "o", "n", "s", "/">>
\* the characters re.sub(r'[\\/*?:"<>|]', "", ...) removes
IllegalChars == {"\\", "/", "*", "?", ":", "\"", "<", ">", "|"}

(***************************************************************************)
(* The CSV loader.  A file is [kind, rows]: kind "missing" (no such file), *)
(* "unreadable" (open or decoding fails), or "file" with the rows that     *)
(* csv.reader yields, each a sequence of cells.  The result is             *)
(* [ok, data, msg]: ok = FALSE stands for None, msg for the error printed. *)
(***************************************************************************)
None == [ok |-> FALSE, data |-> <<>>]

\* ProcessRows without the startswith("http") test of line 46
RECURSIVE ProcessRows_NoHttpCheck(_, _, _)
ProcessRows_NoHttpCheck(rows, url_col_index, name_col_index) ==
    IF rows = <<>> THEN <<>>
    ELSE LET row == Head(rows)
             rest == ProcessRows_NoHttpCheck(Tail(rows), url_col_index,
                                             name_col_index)
         IN  IF row # <<>> /\ Len(row) > Max(url_col_index, name_col_index)
             THEN LET url == Strip(row[url_col_index + 1])
                      scientific_name == Strip(row[name_col_index + 1])
                  IN  IF url # <<>> /\ scientific_name # <<>>
                      THEN <<[url |-> url, scientific_name |-> scientific_name]>>
                           \o rest
                      ELSE rest
             ELSE rest

\* lines 40-50: the loop over the data rows
RECURSIVE ProcessRows(_, _, _)
ProcessRows(rows, url_col_index, name_col_index) ==
    IF rows = <<>> THEN <<>>
    ELSE LET row == Head(rows)
             rest == ProcessRows(Tail(rows), url_col_index, name_col_index)
         IN  IF row # <<>> /\ Len(row) > Max(url_col_index, name_col_index)
             THEN LET url == Strip(row[url_col_index + 1])
                      scientific_name == Strip(row[name_col_index + 1])
                  IN  IF StartsWith(url, S_http) /\ scientific_name # <<>>
                      THEN <<[url |-> url, scientific_name |-> scientific_name]>>
                           \o rest
                      ELSE rest
             ELSE rest

get_observation_data_from_csv(file) ==
    IF file.kind = "missing"
    THEN [ret |-> None, msg |-> "file_not_found"]
    ELSE IF file.kind = "unreadable"
    THEN [ret |-> None, msg |-> "read_error"]
    ELSE IF file.rows = <<>>
    THEN [ret |-> None, msg |-> "csv_empty"]
    ELSE LET header == [k \in 1..Len(file.rows[1]) |->
                            Lower(Strip(file.rows[1][k]))]
             url_col_index == Index0(header, S_url)
             name_col_index == Index0(header, S_scientific_name)
         IN  IF url_col_index < 0 \/ name_col_index < 0
             THEN [ret |-> None, msg |-> "missing_column"]
             ELSE [ret |-> [ok |-> TRUE,
                            data |-> ProcessRows(Tail(file.rows),
                                                 url_col_index, name_col_index)],
                   msg |-> "none"]

\* Python truthiness of the loader's result: None and [] are falsy
Truthy(d) == d.ok /\ d.data # <<>>

(***************************************************************************)
(* Helpers of the downloader.                                              *)
(***************************************************************************)
\* line 83: url.strip('/').split('/')[-1]
ObservationId(url) == LastSegment(StripChars(url, {"/"}), "/")

\* re.sub(pattern, "", s) for a character-class pattern
RemoveChars(s, chars) == SelectSeq(s, LAMBDA c : c \notin chars)

\* SanitizeName without the fallback of lines 91-92
SanitizeName_NoFallback(scientific_name, observation_id) ==
    Replace(RemoveChars(scientific_name, IllegalChars), <<" ">>, <<"_">>)

\* lines 90-92: the species folder name
SanitizeName(scientific_name, observation_id) ==
    LET sanitized_name ==
            Replace(RemoveChars(scientific_name, IllegalChars), <<" ">>, <<"_">>)
    IN  IF sanitized_name = <<>>
        THEN S_observation_ \o observation_id
        ELSE sanitized_name

\* os.path.join(a, b) on POSIX
PathJoin(a, b) ==
    IF b # <<>> /\ Head(b) = "/" THEN b
    ELSE IF a = <<>> \/ a[Len(a)] = "/" THEN a \o b
    ELSE a \o <<"/">> \o b

\* ImgUrl replacing the first 'square' only
ImgUrl_FirstOnly(photo_url) ==
    IF \E k \in 1..Len(photo_url) :
           StartsWith(SubSeq(photo_url, k, Len(photo_url)), S_square)
    THEN LET k == CHOOSE k \in 1..Len(photo_url) :
                      /\ StartsWith(SubSeq(photo_url, k, Len(photo_url)), S_square)
                      /\ \A j \in 1..(k - 1) :
                             ~StartsWith(SubSeq(photo_url, j, Len(photo_url)),
                                         S_square)
         IN  SubSeq(photo_url, 1, k - 1) \o S_large
                 \o SubSeq(photo_url, k + Len(S_square), Len(photo_url))
    ELSE photo_url

\* line 122: photo['url'].replace('square', 'large')
ImgUrl(photo_url) == Replace(photo_url, S_square, S_large)

\* Filename without the observation id
Filename_NoId(observation_id, i) == DecStr(i + 1) \o S_jpg

\* line 123: f"{observation_id}_{i+1}.jpg" for the 0-based index i
Filename(observation_id, i) == observation_id \o <<"_">> \o DecStr(i + 1) \o S_jpg

(***************************************************************************)
(* Inputs: the CSV files of a program run, and the answers of the remote   *)
(* servers.                                                                *)
(***************************************************************************)
U_12 == <<"h", "t", "t", "p", ":", "/", "/", "x", "/", "1", "2">>
U_12slash == <<"h", "t", "t", "p", ":", "/", "/", "x", "/", "1", "2", "/">>
U_7 == <<"h", "t", "t", "p", ":", "/", "/", "x", "/", "7">>
U_abc == <<"h", "t", "t", "p", ":", "/", "/", "x", "/", "a", "b", "c">>
U_ftp == <<"f", "t", "p", ":", "/", "/", "x", "/", "1">>
N_Ab == <<"A", " ", "b">>
N_Ab_padded == <<" ", "A", " ", "b", "\t">>
N_illegal == <<"?", "|">>
N_C == <<"C", ":", "d">>
H_url == <<"u", "r", "l">>
H_URL_padded == <<" ", "U", "R", "L", " ">>
H_name == S_scientific_name
H_Name_padded ==
    <<"S", "c", "i", "e", "n", "t", "i", "f", "i", "c", "_", "N", "a", "m", "e", " ">>
H_id == <<"i", "d">>

File(rows) == [kind |-> "file", rows |-> rows]

\* the CSV files a program run is given
SampleFiles ==
    { [kind |-> "missing", rows |-> <<>>],
      [kind |-> "unreadable", rows |-> <<>>],
      File(<<>>),
      File(<< <<H_url, H_id>> >>),
      File(<< <<H_url, H_name>> >>),
      File(<< <<H_url, H_name>>, <<U_ftp, N_Ab>>, <<U_12>>, <<U_7, <<" ">> >> >>),
      \* two rows with the same trailing id and the same species
      File(<< <<H_url, H_name>>, <<U_12, N_Ab>>, <<U_12slash, N_Ab_padded>> >>),
      \* two ids, one species; columns swapped, header padded and capitalised
      File(<< <<H_Name_padded, H_id, H_URL_padded>>,
              <<N_Ab, <<"1">>, U_12>>, <<N_Ab, <<"2">>, U_7>> >>),
      \* a non-numeric id, then a name that sanitizes to nothing
      File(<< <<H_url, H_name>>, <<U_abc, N_C>>, <<U_7, N_illegal>> >>),
      \* the same id under two species
      File(<< <<H_url, H_name>>, <<U_7, N_C>>, <<U_abc, N_Ab>>, <<U_7, N_Ab>> >>) }

P_square ==
    <<"p", "/", "s", "q", "u", "a", "r", "e", "/", "s", "q", "u", "a", "r", "e">>
P_medium == <<"p", "/", "m", "e", "d", "i", "u", "m">>

\* a photo entry of the API response: a dict with or without the key 'url'
PhotoEntries ==
    { [haskey |-> TRUE, url |-> P_square],
      [haskey |-> TRUE, url |-> P_medium],
      [haskey |-> FALSE, url |-> <<>>] }

PhotoLists == UNION { [1..n -> PhotoEntries] : n \in 1..MaxPhotos }

\* what the API call of one record can end in
ApiOutcomes ==
    { [kind |-> k, photos |-> <<>>] :
          k \in {"makedirs_error", "http_error", "network_error", "json_error",
                 "json_error_requests", "bad_shape", "no_results", "no_photos"} }
    \cup { [kind |-> "photos", photos |-> ps] : ps \in PhotoLists }

\* what the download of one photo can end in
PhotoOutcomes == {"ok", "http_error", "network_error", "write_error"}

(***************************************************************************)
(* State.                                                                  *)
(***************************************************************************)
VARIABLES
    csv,                  \* the file at csv_path
    pc,                   \* position of the program
    obs_data,             \* the loader's result, the downloader's observation_data
    idx,                  \* 1-based position of the for loop over observation_data
    observation_id,       \* local of the downloader
    sanitized_name,       \* local of the downloader
    species_folder_path,  \* local of the downloader
    photos,               \* local of the downloader
    i,                    \* 0-based index of the photo loop
    dirs,                 \* directories on disk
    files,                \* files on disk: path -> content
    requests,             \* HTTP requests issued, in order
    out,                  \* lines printed, in order
    slept,                \* records after which time.sleep(1) ran, in order
    started,              \* records whose loop body was entered, in order
    got,                  \* record -> the photo list its API response carried
    writes                \* file writes, in order

vars == <<csv, pc, obs_data, idx, observation_id, sanitized_name,
          species_folder_path, photos, i, dirs, files, requests, out, slept,
          started, got, writes>>

locals == <<observation_id, sanitized_name, species_folder_path, photos, i>>
disk == <<dirs, files, writes>>

Line(msg, rec) == [msg |-> msg, rec |-> rec]

\* os.path.exists(path)
Exists(path) == path \in dirs \/ path \in DOMAIN files

\* open(path, 'wb').write(content)
WriteFile(fs, path, content) ==
    [p \in DOMAIN fs \cup {path} |-> IF p = path THEN content ELSE fs[p]]

InitRest ==
    /\ obs_data = None
    /\ idx = 0
    /\ observation_id = <<>>
    /\ sanitized_name = <<>>
    /\ species_folder_path = <<>>
    /\ photos = <<>>
    /\ i = 0
    /\ files = <<>>
    /\ requests = <<>>
    /\ out = <<>>
    /\ slept = <<>>
    /\ started = <<>>
    /\ got = <<>>
    /\ writes = <<>>

\* a program run: the output directory may be left from an earlier run
Init ==
    /\ csv \in SampleFiles
    /\ pc = "main"
    /\ dirs \in {{}, {BASE_OUTPUT_DIR}}
    /\ InitRest

(***************************************************************************)
(* The main block.                                                         *)
(***************************************************************************)
\* lines 151-152: os.path.exists(csv_path) is false
MainNoFile ==
    /\ pc = "main"
    /\ csv.kind = "missing"
    /\ out' = Append(out, Line("no_file_exists", 0))
    /\ pc' = "exit"
    /\ UNCHANGED <<csv, obs_data, idx, locals, disk, requests, slept, started, got>>

\* line 155: obs_data = get_observation_data_from_csv(csv_path)
LoadCsv ==
    /\ pc = "main"
    /\ csv.kind # "missing"
    /\ LET r == get_observation_data_from_csv(csv)
       IN  /\ obs_data' = r.ret
           /\ out' = IF r.msg = "none" THEN out ELSE Append(out, Line(r.msg, 0))
    /\ pc' = "loaded"
    /\ UNCHANGED <<csv, idx, locals, disk, requests, slept, started, got>>

\* lines 156-158: if obs_data: download_inaturalist_photos_api(...)
MainDispatch ==
    /\ pc = "loaded"
    /\ pc' = IF Truthy(obs_data) THEN "download" ELSE "exit"
    /\ UNCHANGED <<csv, obs_data, idx, locals, disk, requests, out, slept,
                   started, got>>

(***************************************************************************)
(* download_inaturalist_photos_api.                                        *)
(***************************************************************************)
\* lines 67-76: the empty check, the base directory, the count
DownloadEntry ==
    /\ pc = "download"
    /\ IF ~Truthy(obs_data)
       THEN /\ out' = Append(out, Line("no_valid_data", 0))
            /\ pc' = "exit"
            /\ UNCHANGED <<idx, dirs>>
       ELSE /\ dirs' = dirs \cup {BASE_OUTPUT_DIR}
            /\ out' = (IF Exists(BASE_OUTPUT_DIR) THEN out
                       ELSE Append(out, Line("created_base_directory", 0)))
                      \o <<Line("found_observations", 0)>>
            /\ idx' = 1
            /\ pc' = "record"
    /\ UNCHANGED <<csv, obs_data, locals, files, writes, requests, slept,
                   started, got>>

\* Caught with the exception leaving the for loop and the function
Caught_Abort(ix) == [idx |-> ix, pc |-> "exit"]

\* lines 135-142: an except clause caught the error of record ix, and the for
\* loop of line 78 goes on with the next record
Caught(ix) == [idx |-> ix + 1, pc |-> "record"]

\* the GET of line 103, as recorded in requests
ApiRequest(rec, id, kind) ==
    [rec |-> rec, i |-> 0, url |-> ApiBase \o id, user_agent |-> TRUE,
     status |-> IF kind = "http_error" THEN "http_error"
                ELSE IF kind = "network_error" THEN "network_error"
                ELSE "ok"]

\* the line an except clause of lines 135-142 prints for an API outcome
ApiErrorLine(kind) ==
    IF kind = "http_error" THEN "http_error"
    ELSE IF kind \in {"network_error", "json_error_requests"} THEN "network_error"
    ELSE IF kind = "json_error" THEN "parse_error"
    ELSE "unexpected_error"

\* lines 78-119: one record of the for loop, up to its photo loop
RecordStart ==
    /\ pc = "record"
    /\ idx <= Len(obs_data.data)
    /\ started' = Append(started, idx)
    /\ LET obs == obs_data.data[idx]
           url == obs.url
           scientific_name == obs.scientific_name
           id == ObservationId(url)
           name == SanitizeName(scientific_name, id)
           folder == PathJoin(BASE_OUTPUT_DIR, name)
       IN  /\ observation_id' = id
           /\ IF ~IsDigit(id)
              THEN /\ out' = Append(out, Line("skipping_invalid_url", idx))
                   /\ idx' = idx + 1
                   /\ UNCHANGED <<pc, sanitized_name, species_folder_path, photos,
                                  i, dirs, requests, got>>
              ELSE /\ sanitized_name' = name
                   /\ species_folder_path' = folder
                   /\ \E api \in ApiOutcomes :
                        IF api.kind = "makedirs_error"
                        THEN \* os.makedirs raises OSError
                             /\ ~Exists(folder)
                             /\ out' = Append(out, Line("unexpected_error", idx))
                             /\ idx' = Caught(idx).idx
                             /\ pc' = Caught(idx).pc
                             /\ UNCHANGED <<photos, i, dirs, requests, got>>
                        ELSE
                             /\ dirs' = dirs \cup {folder}
                             /\ requests' = Append(requests,
                                                   ApiRequest(idx, id, api.kind))
                             /\ IF api.kind = "photos"
                                THEN /\ photos' = api.photos
                                     /\ i' = 0
                                     /\ got' = [r \in DOMAIN got \cup {idx} |->
                                                   IF r = idx THEN api.photos
                                                   ELSE got[r]]
                                     /\ out' = out \o <<Line("processing", idx),
                                                        Line("found_photos", idx)>>
                                     /\ pc' = "photo"
                                     /\ idx' = idx
                                ELSE IF api.kind \in {"no_results", "no_photos"}
                                THEN \* the continue of line 110 or 116
                                     /\ out' = out \o
                                         <<Line("processing", idx),
                                           Line(IF api.kind = "no_results"
                                                THEN "no_data_returned"
                                                ELSE "no_photos_found", idx)>>
                                     /\ idx' = idx + 1
                                     /\ UNCHANGED <<pc, photos, i, got>>
                                ELSE /\ out' = out \o
                                         <<Line("processing", idx),
                                           Line(ApiErrorLine(api.kind), idx)>>
                                     /\ idx' = Caught(idx).idx
                                     /\ pc' = Caught(idx).pc
                                     /\ UNCHANGED <<photos, i, got>>
    /\ UNCHANGED <<csv, obs_data, files, writes, slept>>

\* the GET of line 127, as recorded in requests; i is the 1-based photo index
PhotoRequest(rec, k, img_url, outcome) ==
    [rec |-> rec, i |-> k, url |-> img_url, user_agent |-> FALSE,
     status |-> IF outcome \in {"http_error", "network_error"} THEN outcome
                ELSE "ok"]

\* AfterPhotoError with the error caught inside the photo loop: the loop goes
\* on with the next photo
AfterPhotoError_SkipPhoto(ix, k) == [idx |-> ix, pc |-> "photo", i |-> k + 1]

\* lines 121-142: an exception raised inside the photo loop at 0-based index k
\* leaves the try block of line 82, and with it the photo loop of record ix
AfterPhotoError(ix, k) == [idx |-> ix + 1, pc |-> "record", i |-> k]

\* WritesFile with the body written before raise_for_status()
WritesFile_BeforeStatus(outcome) == outcome \in {"ok", "http_error"}

\* lines 128-131: raise_for_status() comes before open(), so the body is
\* written only for a 2xx answer
WritesFile(outcome) == outcome = "ok"

\* lines 121-131 and the except clauses: one iteration of the photo loop
PhotoStep ==
    /\ pc = "photo"
    /\ i < Len(photos)
    /\ LET photo == photos[i + 1]
       IN  IF ~photo.haskey
           THEN \* photo['url'] raises KeyError
                /\ out' = Append(out, Line("parse_error", idx))
                /\ idx' = AfterPhotoError(idx, i).idx
                /\ pc' = AfterPhotoError(idx, i).pc
                /\ i' = AfterPhotoError(idx, i).i
                /\ UNCHANGED <<files, writes, requests>>
           ELSE LET img_url == ImgUrl(photo.url)
                    filename == Filename(observation_id, i)
                    filepath == PathJoin(species_folder_path, filename)
                IN  \E outcome \in PhotoOutcomes :
                      /\ requests' = Append(requests,
                                            PhotoRequest(idx, i + 1, img_url, outcome))
                      /\ IF WritesFile(outcome)
                         THEN /\ files' = WriteFile(files, filepath, Len(requests'))
                              /\ writes' = Append(writes,
                                                  [rec |-> idx, i |-> i + 1,
                                                   path |-> filepath,
                                                   body |-> Len(requests')])
                         ELSE UNCHANGED <<files, writes>>
                      /\ IF outcome = "ok"
                         THEN /\ out' = Append(out, Line("downloading", idx))
                              /\ i' = i + 1
                              /\ UNCHANGED <<idx, pc>>
                         ELSE /\ out' = out \o
                                    <<Line("downloading", idx),
                                      Line(IF outcome = "write_error"
                                           THEN "unexpected_error"
                                           ELSE outcome, idx)>>
                              /\ idx' = AfterPhotoError(idx, i).idx
                              /\ pc' = AfterPhotoError(idx, i).pc
                              /\ i' = AfterPhotoError(idx, i).i
    /\ UNCHANGED <<csv, obs_data, observation_id, sanitized_name,
                   species_folder_path, photos, dirs, slept, started, got>>

\* Sleep without the call of time.sleep
Sleep_NoDelay ==
    /\ pc = "photo"
    /\ i = Len(photos)
    /\ idx' = idx + 1
    /\ pc' = "record"
    /\ UNCHANGED <<csv, obs_data, locals, disk, requests, out, slept, started, got>>

\* line 133: time.sleep(1) after the photo loop
Sleep ==
    /\ pc = "photo"
    /\ i = Len(photos)
    /\ slept' = Append(slept, idx)
    /\ idx' = idx + 1
    /\ pc' = "record"
    /\ UNCHANGED <<csv, obs_data, locals, disk, requests, out, started, got>>

\* line 144: the notice after the for loop
Complete ==
    /\ pc = "record"
    /\ idx > Len(obs_data.data)
    /\ out' = Append(out, Line("download_complete", 0))
    /\ pc' = "exit"
    /\ UNCHANGED <<csv, obs_data, idx, locals, disk, requests, slept, started, got>>

Next ==
    \/ MainNoFile
    \/ LoadCsv
    \/ MainDispatch
    \/ DownloadEntry
    \/ RecordStart
    \/ PhotoStep
    \/ Sleep
    \/ Complete

Spec == Init /\ [][Next]_vars

\* the runs checked for termination: every network call returns and the
\* interpreter keeps running
FairFiles ==
    { [kind |-> "missing", rows |-> <<>>],
      File(<< <<H_url, H_name>> >>),
      File(<< <<H_url, H_name>>, <<U_abc, N_C>>, <<U_7, N_illegal>> >>),
      File(<< <<H_url, H_name>>, <<U_12, N_Ab>>, <<U_7, N_Ab>> >>) }

FairInit ==
    /\ csv \in FairFiles
    /\ pc = "main"
    /\ dirs = {}
    /\ InitRest

FairSpec == FairInit /\ [][Next]_vars /\ WF_vars(Next)

(***************************************************************************)
(* The loader alone: a CSV drawn from every file of up to MaxDataRows data *)
(* rows under one of the headers below, each row of any length up to the   *)
(* header's, and LoadCsv applies get_observation_data_from_csv to it.      *)
(***************************************************************************)
LoaderHeaders ==
    { <<H_url, H_name>>,
      <<H_Name_padded, H_URL_padded>>,
      <<H_id, H_URL_padded, H_name>>,
      <<H_name, H_url, H_URL_padded>>,
      <<H_url, H_id>> }

D_http == <<" ", "h", "t", "t", "p", "1", "\t">>
D_Http == <<"H", "t", "t", "p">>
D_blank == <<" ">>

DataCells == {D_http, D_Http, D_blank}

RowsUpTo(n) == UNION { [1..k -> DataCells] : k \in 0..n }

LoaderInit ==
    /\ \E h \in LoaderHeaders :
         \E m \in 0..MaxDataRows :
           \E rs \in [1..m -> RowsUpTo(Len(h))] :
             csv = File(<<h>> \o rs)
    /\ pc = "main"
    /\ dirs = {}
    /\ InitRest

LoaderSpec == LoaderInit /\ [][LoadCsv]_vars

(***************************************************************************)
(* The sanitizer alone: the downloader is at its first record, whose       *)
(* scientific_name is any string of up to MaxNameLen characters, and       *)
(* RecordStart applies lines 83-119 to it.                                 *)
(***************************************************************************)
NameAlphabet == IllegalChars \cup {" ", "a", "_"}

Names == UNION { [1..n -> NameAlphabet] : n \in 0..MaxNameLen }

SanitizeInit ==
    /\ csv = File(<<>>)
    /\ pc = "record"
    /\ \E name \in Names :
         obs_data = [ok |-> TRUE,
                     data |-> <<[url |-> U_12slash, scientific_name |-> name]>>]
    /\ idx = 1
    /\ observation_id = <<>>
    /\ sanitized_name = <<>>
    /\ species_folder_path = <<>>
    /\ photos = <<>>
    /\ i = 0
    /\ dirs = {BASE_OUTPUT_DIR}
    /\ files = <<>>
    /\ requests = <<>>
    /\ out = <<Line("found_observations", 0)>>
    /\ slept = <<>>
    /\ started = <<>>
    /\ got = <<>>
    /\ writes = <<>>

SanitizeSpec == SanitizeInit /\ [][RecordStart]_vars

(***************************************************************************)
(* Vocabulary of the properties.                                           *)
(***************************************************************************)
Count(seq, x) == Cardinality({k \in DOMAIN seq : seq[k] = x})

Records == IF obs_data.ok THEN obs_data.data ELSE <<>>

\* the record's loop body has ended
Finished(rec) == rec \in 1..Len(Records) /\ (rec < idx \/ pc = "exit")

\* photo requests of record rec
PhotoReqs(rec) == {q \in DOMAIN requests : requests[q].rec = rec /\ requests[q].i > 0}

\* photo requests answered with a non-2xx status
FailedPhotoReqs ==
    {q \in DOMAIN requests : requests[q].i > 0 /\ requests[q].status = "http_error"}

Printed(msg, rec) == \E k \in DOMAIN out : out[k] = Line(msg, rec)

(***************************************************************************)
(* C1.  Original statement: when the GET of photo i of a record returns a  *)
(* non-2xx status, only that photo is skipped, and a GET is still issued   *)
(* for every later photo of the same record.                               *)
(***************************************************************************)
C1_LaterPhotosStillRequested ==
    \A q \in FailedPhotoReqs :
        LET rec == requests[q].rec
        IN  Finished(rec) =>
                \A j \in (requests[q].i + 1)..Len(got[rec]) :
                    got[rec][j].haskey =>
                        \E q2 \in PhotoReqs(rec) : requests[q2].i = j

\* C1, as the code has it: a non-2xx answer to the GET of photo i ends the
\* whole record: the error is printed, no file is written for photo i, no GET
\* is issued and no file written for any later photo of that record, and the
\* loop goes on with the next record.
C1_FailedPhotoEndsRecord ==
    \A q \in FailedPhotoReqs :
        LET rec == requests[q].rec
        IN  /\ \A q2 \in PhotoReqs(rec) : q2 <= q
            /\ \A w \in DOMAIN writes :
                   writes[w].rec = rec => writes[w].i < requests[q].i
            /\ Printed("http_error", rec)
            /\ Finished(rec)

C1_Witness ==
    \E q \in FailedPhotoReqs :
        LET rec == requests[q].rec
        IN  /\ requests[q].i < Len(got[rec])
            /\ got[rec][requests[q].i + 1].haskey
            /\ \E w \in DOMAIN writes : writes[w].rec > rec

(***************************************************************************)
(* C2.  Original statement: the delay runs exactly once for every record   *)
(* that reached the photo loop, whether or not photo downloads of it       *)
(* failed, and never for a record skipped before the photo loop.           *)
(***************************************************************************)
C2_DelayOncePerPhotoLoop ==
    \A rec \in 1..Len(Records) :
        Finished(rec) =>
            Count(slept, rec) = IF rec \in DOMAIN got THEN 1 ELSE 0

\* every photo of the record's list was downloaded and written
AllPhotosWritten(rec) ==
    /\ rec \in DOMAIN got
    /\ \A k \in 1..Len(got[rec]) :
           \E w \in DOMAIN writes : writes[w].rec = rec /\ writes[w].i = k

\* C2, as the code has it: the delay runs exactly once for every record that
\* reached the photo loop and whose every photo was downloaded and written
\* without an error, and zero times for every other record (skipped before the
\* photo loop, or left in the middle of it by a failed photo).
C2_DelayOncePerCompleteRecord ==
    \A rec \in 1..Len(Records) :
        Count(slept, rec) =
            IF Finished(rec) /\ AllPhotosWritten(rec) THEN 1 ELSE 0

C2_Witness ==
    /\ pc = "exit"
    /\ \E rec \in DOMAIN got :
          /\ Count(slept, rec) = 0
          /\ \E w \in DOMAIN writes : writes[w].rec = rec
    /\ \E rec \in DOMAIN got : Count(slept, rec) = 1
    /\ \E rec \in 1..Len(Records) : rec \notin DOMAIN got

(***************************************************************************)
(* C3.  Every run of the downloader over a non-empty record sequence       *)
(* enters the loop body of every record exactly once, in sequence order,   *)
(* whatever the records end in, and then prints the final notice exactly   *)
(* once, as the last line.                                                 *)
(***************************************************************************)
C3_Done ==
    /\ pc = "exit"
    /\ started = [k \in 1..Len(Records) |-> k]
    /\ Count(out, Line("download_complete", 0)) = 1
    /\ out[Len(out)] = Line("download_complete", 0)

\* C3: a run of the downloader over a non-empty record sequence leads to a
\* state where every record was entered once, in order, and the final notice
\* is the last line printed, printed once.
C3_AllRecordsThenNotice == (pc = "download" /\ Truthy(obs_data)) ~> C3_Done

C3_Witness ==
    /\ C3_Done
    /\ Len(Records) >= 2
    /\ Printed("unexpected_error", 1)
    /\ \E w \in DOMAIN writes : writes[w].rec = 2

(***************************************************************************)
(* C4.  Original statement: no two distinct records ever write the same    *)
(* path, also when two rows carry the same URL or the same trailing id.    *)
(***************************************************************************)
C4_NoSharedPath ==
    \A a, b \in DOMAIN writes :
        writes[a].path = writes[b].path => writes[a].rec = writes[b].rec

\* C4, as the code has it: two records whose observation ids differ never
\* write the same path (records with the same id and species folder do).
C4_DistinctIdsDistinctPaths ==
    \A a, b \in DOMAIN writes :
        writes[a].path = writes[b].path =>
            ObservationId(Records[writes[a].rec].url)
                = ObservationId(Records[writes[b].rec].url)

C4_Witness ==
    \E a, b \in DOMAIN writes :
        /\ writes[a].rec # writes[b].rec
        /\ writes[a].i = writes[b].i
        /\ Records[writes[a].rec].scientific_name
               = Records[writes[b].rec].scientific_name
        /\ ObservationId(Records[writes[a].rec].url)
               # ObservationId(Records[writes[b].rec].url)

(***************************************************************************)
(* C5.  The loop body of a record whose URL, stripped of slashes, ends in  *)
(* a segment that is not all digits issues no request, creates no          *)
(* directory, writes no file, and leaves the loop at the next record.      *)
(***************************************************************************)
C5_Digits == {"0", "1", "2", "3", "4", "5", "6", "7", "8", "9"}

C5_NonNumeric(url) ==
    LET seg == ObservationId(url)
    IN  seg = <<>> \/ \E k \in 1..Len(seg) : seg[k] \notin C5_Digits

\* C5: a step taken at a record with a non-numeric last segment changes no
\* request, directory or file and moves the loop to the next record.
C5_NonNumericSkipped ==
    [][ (/\ pc = "record"
         /\ idx <= Len(Records)
         /\ C5_NonNumeric(Records[idx].url))
        => /\ requests' = requests
           /\ dirs' = dirs
           /\ files' = files
           /\ writes' = writes
           /\ pc' = "record"
           /\ idx' = idx + 1 ]_vars

C5_Witness ==
    \E k \in DOMAIN started :
        /\ C5_NonNumeric(Records[started[k]].url)
        /\ Printed("skipping_invalid_url", started[k])
        /\ \E q \in DOMAIN requests : requests[q].rec > started[k]

(***************************************************************************)
(* C6.  When every photo GET of a record with id N and photos p1..pn       *)
(* succeeds, exactly the files N_1.jpg .. N_n.jpg are written under        *)
(* base_output_dir/<sanitized species folder>, N_i.jpg holds the body      *)
(* answered for photo i, and the GET of photo i asked for its url with     *)
(* every 'square' replaced by 'large'.                                     *)
(***************************************************************************)
\* the expected id, folder and download url of the sample inputs
C6_Id(url) == IF url = U_7 THEN <<"7">> ELSE <<"1", "2">>

C6_Folder(name, url) ==
    IF name = N_Ab THEN <<"A", "_", "b">>
    ELSE IF name = N_C THEN <<"C", "d">>
    ELSE S_observation_ \o C6_Id(url)

C6_Large(photo_url) ==
    IF photo_url = P_square
    THEN <<"p", "/", "l", "a", "r", "g", "e", "/", "l", "a", "r", "g", "e">>
    ELSE photo_url

C6_Path(rec, k) ==
    BASE_OUTPUT_DIR \o <<"/">>
        \o C6_Folder(Records[rec].scientific_name, Records[rec].url)
        \o <<"/">> \o C6_Id(Records[rec].url) \o <<"_">>
        \o <<DigitChars[k + 1]>> \o <<".", "j", "p", "g">>

\* the record before idx has just ended with all its photos downloaded
C6_JustCompleted ==
    /\ pc = "record"
    /\ slept # <<>>
    /\ slept[Len(slept)] = idx - 1

\* C6: right after a record ended with all n photo GETs answered 2xx, its n
\* files are on disk under the expected paths with the bodies of its n GETs,
\* which asked for the 'large' urls, and it wrote and requested nothing else.
C6_AllPhotosSaved ==
    C6_JustCompleted =>
        LET rec == idx - 1
            n == Len(got[rec])
        IN  /\ \A k \in 1..n :
                  \E q \in DOMAIN requests :
                      /\ requests[q].rec = rec
                      /\ requests[q].i = k
                      /\ requests[q].url = C6_Large(got[rec][k].url)
                      /\ C6_Path(rec, k) \in DOMAIN files
                      /\ files[C6_Path(rec, k)] = q
            /\ Cardinality({w \in DOMAIN writes : writes[w].rec = rec}) = n
            /\ {writes[w].path : w \in {v \in DOMAIN writes : writes[v].rec = rec}}
                   = {C6_Path(rec, k) : k \in 1..n}
            /\ Cardinality(PhotoReqs(rec)) = n

C6_Witness ==
    /\ C6_JustCompleted
    /\ Len(got[idx - 1]) = 2
    /\ got[idx - 1][1].url = P_square
    /\ got[idx - 1][2].url = P_medium
    /\ Records[idx - 1].scientific_name = N_Ab

(***************************************************************************)
(* C7.  For a CSV whose header, each cell trimmed and lowercased, has both *)
(* 'url' and 'scientific_name', the loader returns exactly the data rows   *)
(* long enough to reach both columns whose trimmed url cell starts with    *)
(* 'http' and whose trimmed scientific_name cell is not empty, in row      *)
(* order, and prints no error.                                             *)
(***************************************************************************)
C7_Header == [k \in 1..Len(csv.rows[1]) |-> Lower(Strip(csv.rows[1][k]))]

\* the first position of column x in header h
C7_First(h, x) ==
    CHOOSE k \in 1..Len(h) : h[k] = x /\ \A j \in 1..(k - 1) : h[j] # x

C7_HasBoth ==
    /\ csv.kind = "file"
    /\ csv.rows # <<>>
    /\ \E k \in 1..Len(csv.rows[1]) : Lower(Strip(csv.rows[1][k])) = S_url
    /\ \E k \in 1..Len(csv.rows[1]) :
           Lower(Strip(csv.rows[1][k])) = S_scientific_name

\* the data rows kept, given the positions u and s of the two columns
C7_Keep(row, u, s) ==
    /\ Len(row) >= u
    /\ Len(row) >= s
    /\ StartsWith(Strip(row[u]), S_http)
    /\ Strip(row[s]) # <<>>

C7_Expected ==
    LET h == C7_Header
        u == C7_First(h, S_url)
        s == C7_First(h, S_scientific_name)
        kept == SelectSeq(Tail(csv.rows), LAMBDA row : C7_Keep(row, u, s))
    IN  [k \in 1..Len(kept) |->
            [url |-> Strip(kept[k][u]), scientific_name |-> Strip(kept[k][s])]]

\* C7: for a header with both columns the loader returns exactly the kept
\* rows, in row order, and prints no error.
C7_LoaderExact ==
    (pc = "loaded" /\ C7_HasBoth) =>
        /\ obs_data = [ok |-> TRUE, data |-> C7_Expected]
        /\ out = <<>>

C7_Witness ==
    /\ pc = "loaded"
    /\ C7_HasBoth
    /\ csv.rows[1] = <<H_id, H_URL_padded, H_name>>
    /\ Len(csv.rows) = 3
    /\ csv.rows[2] = <<D_http, D_Http, D_blank>>
    /\ csv.rows[3] = <<D_blank, D_http, D_Http>>
    /\ obs_data.data = <<[url |-> <<"h", "t", "t", "p", "1">>,
                          scientific_name |-> D_Http]>>

(***************************************************************************)
(* C8.  When the loader returns an empty record sequence, the program      *)
(* prints 'no valid data' and stops, with no base directory created, no    *)
(* request issued and no loader error printed.                             *)
(***************************************************************************)
C8_EmptyReported ==
    (pc = "exit" /\ obs_data.ok /\ obs_data.data = <<>>) =>
        /\ Printed("no_valid_data", 0)
        /\ ~Printed("created_base_directory", 0)
        /\ requests = <<>>
        /\ \A k \in DOMAIN out : out[k].msg = "no_valid_data"

(***************************************************************************)
(* C9.  A step in which the GET of a photo is answered with a non-2xx      *)
(* status prints the error and changes no file and no directory: the       *)
(* files of earlier photos and of earlier records keep their content and   *)
(* no file appears for the failed photo.                                   *)
(***************************************************************************)
C9_FailedPhotoLeavesFiles ==
    [][ (/\ Len(requests') = Len(requests) + 1
         /\ requests'[Len(requests')].i > 0
         /\ requests'[Len(requests')].status = "http_error")
        => /\ files' = files
           /\ writes' = writes
           /\ dirs' = dirs
           /\ out'[Len(out')] = Line("http_error", idx) ]_vars

C9_Witness ==
    \E q \in FailedPhotoReqs :
        /\ requests[q].i >= 2
        /\ \E w \in DOMAIN writes : writes[w].rec = requests[q].rec
        /\ \E w \in DOMAIN writes : writes[w].rec < requests[q].rec
        /\ \A w \in DOMAIN writes :
               writes[w].path \in DOMAIN files

(***************************************************************************)
(* C10.  The species folder name computed for a record with an all-digit   *)
(* id is never empty, holds no space and none of \ / * ? : " < > |, and    *)
(* sanitizing it again gives it back.                                      *)
(***************************************************************************)
C10_Acted ==
    /\ started # <<>>
    /\ ~C5_NonNumeric(Records[1].url)

\* C10: the folder name of a record with an all-digit id is not empty, holds
\* no space or illegal character, and is a fixed point of the sanitizer.
C10_SanitizeIdempotent ==
    C10_Acted =>
        /\ sanitized_name # <<>>
        /\ \A k \in 1..Len(sanitized_name) :
               sanitized_name[k] \notin
                   {" ", "\\", "/", "*", "?", ":", "\"", "<", ">", "|"}
        /\ SanitizeName(sanitized_name, observation_id) = sanitized_name
        /\ species_folder_path = BASE_OUTPUT_DIR \o <<"/">> \o sanitized_name

C10_Witness ==
    /\ C10_Acted
    /\ Records[1].scientific_name = <<"?", "|">>
    /\ sanitized_name = S_observation_ \o <<"1", "2">>

====
